---- MODULE Spec2Model ----
(***************************************************************************)
(* Model of functions/index.js: the imgDownscale storage trigger.          *)
(*                                                                         *)
(* Strings are sequences of symbols.  A symbol is either one of the single *)
(* characters "/", ".", "_" or a word ("upload", "images", "pic", ...)     *)
(* that stands for a run of characters containing none of the other        *)
(* symbols, so that searching, slicing and comparing sequences of symbols  *)
(* behaves as the JavaScript string operations do on the characters.       *)
(***************************************************************************)
EXTENDS Integers, Sequences, FiniteSets, TLC

(***************************************************************************)
(* Optional values (undefined in JavaScript): a sequence of length 0 or 1. *)
(***************************************************************************)
None == <<>>
Some(x) == <<x>>

(***************************************************************************)
(* String.prototype operations used by the handler.                        *)
(***************************************************************************)
startsWith(s, pre) ==
  /\ Len(pre) <= Len(s)
  /\ SubSeq(s, 1, Len(pre)) = pre

endsWith(s, suf) ==
  /\ Len(suf) <= Len(s)
  /\ SubSeq(s, Len(s) - Len(suf) + 1, Len(s)) = suf

\* Positions at which pat occurs in s.
Occurrences(s, pat) ==
  {i \in 1..(Len(s) - Len(pat) + 1) : SubSeq(s, i, i + Len(pat) - 1) = pat}

Min(S) == CHOOSE x \in S : \A y \in S : x <= y
Max(S) == CHOOSE x \in S : \A y \in S : x >= y

\* s.replace(pat, rep) with a string pattern: only the first occurrence.
replace(s, pat, rep) ==
  IF Occurrences(s, pat) = {} THEN s
  ELSE LET i == Min(Occurrences(s, pat))
       IN SubSeq(s, 1, i - 1) \o rep \o SubSeq(s, i + Len(pat), Len(s))

(***************************************************************************)
(* path (posix) operations of Node.js used by the handler.                 *)
(***************************************************************************)
\* path.dirname
dirname(p) ==
  IF Len(p) = 0 THEN <<".">>
  ELSE LET hasRoot == p[1] = "/"
           cut == {i \in 2..Len(p) :
                     /\ p[i] = "/"
                     /\ \E j \in (i + 1)..Len(p) : p[j] # "/"}
       IN IF cut = {} THEN (IF hasRoot THEN <<"/">> ELSE <<".">>)
          ELSE IF hasRoot /\ Max(cut) = 2 THEN <<"/", "/">>
          ELSE SubSeq(p, 1, Max(cut) - 1)

\* path.basename (no extension argument)
basename(p) ==
  LET nonSlash == {i \in 1..Len(p) : p[i] # "/"}
  IN IF nonSlash = {} THEN <<>>
     ELSE LET e == Max(nonSlash)
              before == {i \in 1..e : p[i] = "/"}
              s == IF before = {} THEN 0 ELSE Max(before)
          IN SubSeq(p, s + 1, e)

\* The segments of p between "/" separators (empty segments included).
RECURSIVE Split(_)
Split(p) ==
  IF \A i \in 1..Len(p) : p[i] # "/" THEN <<p>>
  ELSE LET i == Min({k \in 1..Len(p) : p[k] = "/"})
       IN <<SubSeq(p, 1, i - 1)>> \o Split(SubSeq(p, i + 1, Len(p)))

\* normalizeString of lib/path.js, on the list of segments: the segments
\* kept after "", "." and ".." have been resolved.
RECURSIVE Resolve(_, _, _)
Resolve(segs, acc, allowAboveRoot) ==
  IF segs = <<>> THEN acc
  ELSE LET seg == Head(segs)
           rest == Tail(segs)
       IN IF seg = <<>> \/ seg = <<".">> THEN Resolve(rest, acc, allowAboveRoot)
          ELSE IF seg = <<".", ".">> THEN
            IF acc # <<>> /\ acc[Len(acc)] # <<".", ".">>
              THEN Resolve(rest, SubSeq(acc, 1, Len(acc) - 1), allowAboveRoot)
            ELSE IF allowAboveRoot THEN Resolve(rest, Append(acc, seg), allowAboveRoot)
            ELSE Resolve(rest, acc, allowAboveRoot)
          ELSE Resolve(rest, Append(acc, seg), allowAboveRoot)

RECURSIVE JoinSegs(_)
JoinSegs(segs) ==
  IF segs = <<>> THEN <<>>
  ELSE IF Len(segs) = 1 THEN segs[1]
  ELSE segs[1] \o <<"/">> \o JoinSegs(Tail(segs))

\* path.normalize
normalize(p) ==
  IF Len(p) = 0 THEN <<".">>
  ELSE LET isAbsolute == p[1] = "/"
           trailingSeparator == p[Len(p)] = "/"
           body == JoinSegs(Resolve(Split(p), <<>>, ~isAbsolute))
       IN IF body = <<>>
            THEN (IF isAbsolute THEN <<"/">>
                  ELSE IF trailingSeparator THEN <<".", "/">> ELSE <<".">>)
          ELSE LET withTrail == IF trailingSeparator THEN body \o <<"/">> ELSE body
               IN IF isAbsolute THEN <<"/">> \o withTrail ELSE withTrail

\* path.join of two arguments
join(a, b) ==
  IF a = <<>> /\ b = <<>> THEN <<".">>
  ELSE IF a = <<>> THEN normalize(b)
  ELSE IF b = <<>> THEN normalize(a)
  ELSE normalize(a \o <<"/">> \o b)


(***************************************************************************)
(* Bounds of the model.                                                    *)
(***************************************************************************)
\* Invocations of the handler in one behaviour (first deliveries, duplicate
\* deliveries and deliveries of events fired by the handler's own uploads).
MaxRuns == 2
\* The clock read by new Date() takes the values 0..MaxClock.
MaxClock == 1

(***************************************************************************)
(* Constants of the program.                                               *)
(***************************************************************************)
\* Variant: the comparison is >= 1080, an image 1080 wide is resized too.
MaxWidth_inclusive == 1080 - 1

\* if (imgDimensions.width > 1080)
MaxWidth == 1080
\* "-resize", "x1080"
TargetHeight == 1080
\* os.tmpdir()
tmpdir == <<"/", "tmp">>
ImagePrefix == <<"image", "/">>
StagingSuffix == <<"/", "upload">>
StagingPattern == <<"upload", "/">>
ImagesReplacement == <<"images", "/">>
Expires == "01-01-2222"

(***************************************************************************)
(* The inputs: the object a user uploads and its finalize event.           *)
(***************************************************************************)
Bucket == "bkt"
Doc1 == <<"msgs", "/", "m1">>
DocPaths == {Doc1}

Names ==
  { <<"files", "/", "u1", "/", "assets", "/", "upload", "/", "pic", ".", "png">>,
    <<"files", "/", "u1", "/", "assets", "/", "images", "/", "pic", ".", "png">>,
    <<"files", "/", "u1", "/", "my", "upload", "/", "pic", ".", "png">>,
    <<"upload", "/", "pic", ".", "png">>,
    <<"files", "/", "my", "upload", "/", "upload", "/", "pic", ".", "png">> }

ContentTypes ==
  { None,
    Some(<<"image", "/", "png">>),
    Some(<<"text", "/", "plain">>) }

Metadatas ==
  { None,
    Some([author |-> "u1"]),
    Some([author |-> "u1", messageOrigin |-> Doc1]) }

\* File contents: the bytes are identified by kind and pixel dimensions.
Image(w, h) == [kind |-> "original", width |-> w, height |-> h]
Junk == [kind |-> "undecodable", width |-> 0, height |-> 0]
Contents ==
  { Image(1080, 810), Image(4000, 3000), Junk }

UploadEvent(name, ct, md) ==
  [name |-> name, bucket |-> Bucket, contentType |-> ct, metadata |-> md]

VARIABLES
  objects,   \* the bucket: object key |-> content, for the objects present
  fired,     \* the finalize events fired so far, each with what fired it
  tmpDirs,   \* directories created in the local scratch area
  tmpFiles,  \* local scratch files: path |-> content
  docs,      \* the document store: document path |-> fields
  now,       \* the clock: the time of the latest delivery
  redeliver, \* whether the platform delivers an event more than once
  runs       \* the invocations of the handler, in order of start

vars == <<objects, fired, tmpDirs, tmpFiles, docs, now, redeliver, runs>>

(***************************************************************************)
(* Finite maps with a changing domain.                                     *)
(***************************************************************************)
Put(f, k, v) == [y \in DOMAIN f \cup {k} |-> IF y = k THEN v ELSE f[y]]
Del(f, k) == [y \in DOMAIN f \ {k} |-> f[y]]
EmptyMap == [y \in {} |-> 0]

(***************************************************************************)
(* The values the handler derives from its event (lines 35-59, 90).        *)
(***************************************************************************)
\* Variant: an absent content type is let through.
IsImage_absentPasses(e) ==
  e.contentType = None \/ startsWith(e.contentType[1], ImagePrefix)

\* object.contentType?.startsWith("image/")
IsImage(e) == e.contentType # None /\ startsWith(e.contentType[1], ImagePrefix)

filePath(e) == e.name

\* Variant: only the extension of the name is kept.
baseFileName_extensionOnly(e) ==
  LET b == basename(filePath(e)) IN SubSeq(b, Len(b) - 1, Len(b))

baseFileName(e) == basename(filePath(e))
fileDir(e) == dirname(filePath(e))

\* fileDir.endsWith("/upload")
InStaging(e) == endsWith(fileDir(e), StagingSuffix)

\* date.toISOString(): a fixed-width rendering of the clock value.
toISOString(d) == <<"T", ToString(d)>>

scaledName(e, d) == toISOString(d) \o <<"_">> \o baseFileName(e)
scaledFilePath(e, d) == normalize(join(fileDir(e), scaledName(e, d)))
tempLocalFile(e) == join(tmpdir, filePath(e))
tempLocalDir(e) == dirname(tempLocalFile(e))
tempLocalScaledFile(e, d) == join(tmpdir, scaledFilePath(e, d))
bucketFilePath(e, d) == replace(scaledFilePath(e, d), StagingPattern, ImagesReplacement)

\* The event filter: lines 40-51.
Filter(e) ==
  IF ~IsImage(e) THEN "skip-not-image"
  ELSE IF ~InStaging(e) THEN "skip-already-processed"
  ELSE "proceed"

\* convert <in> -resize x1080 <out>: height 1080, width in proportion
\* (rounded to the nearest pixel).
Resized(c) ==
  [kind |-> "resized",
   width |-> (2 * c.width * TargetHeight + c.height) \div (2 * c.height),
   height |-> TargetHeight]

\* getSignedUrl({action: "read", expires: "01-01-2222"}) of a File.
SignedUrl(key) == [bucket |-> Bucket, key |-> key, action |-> "read", expires |-> Expires]

\* Variant: the URL is signed for the original object.
UploadedFile_original(e, d) == filePath(e)

\* response[0]: the File that bucket.upload resolved with (lines 91, 96).
UploadedFile(e, d) == bucketFilePath(e, d)

\* Variant: the uploaded artifact is deleted instead of the original.
DeleteTarget_artifact(e, d) == bucketFilePath(e, d)

\* bucket.file(filePath): the File that is deleted (line 109).
DeleteTarget(e, d) == filePath(e)

(***************************************************************************)
(* Runs.                                                                   *)
(***************************************************************************)
NewRun(f, d, pc, outcome) ==
  [event |-> f.event, trigger |-> f.by, pc |-> pc, date |-> d,
   outcome |-> outcome, failedAt |-> "none", log |-> <<>>,
   imgDimensions |-> None, destination |-> None, signedImageUrl |-> None,
   result |-> None]

Logged(r, ops) == [r EXCEPT !.log = @ \o ops]
Goto(r, pc) == [r EXCEPT !.pc = pc]
\* Variant: the failed step is attempted again.
Throw_retry(r, step) == [r EXCEPT !.outcome = "error", !.failedAt = step]

\* An exception leaves the handler: the run ends with an error.
Throw(r, step) == [r EXCEPT !.pc = "done", !.outcome = "error", !.failedAt = step]

RunIds == 1..Len(runs)

Init ==
  \E name \in Names, ct \in ContentTypes, md \in Metadatas, c \in Contents :
    /\ objects = Put(EmptyMap, name, c)
    /\ fired = {[event |-> UploadEvent(name, ct, md), by |-> "user"]}
    /\ tmpDirs = {}
    /\ tmpFiles = EmptyMap
    /\ docs = [d \in DocPaths |-> [resource |-> None]]
    /\ now = 0
    /\ redeliver = TRUE
    /\ runs = <<>>

\* The platform delivers a finalize event (again, if it redelivers) and the handler runs
\* up to the call of mkdirp: lines 34-61.  new Date() reads the clock, which
\* never runs backwards: d is the time of this delivery.
Invoke(f, d) ==
  /\ f \in fired
  /\ Len(runs) < MaxRuns
  /\ redeliver \/ \A i \in RunIds : runs[i].event # f.event
  /\ d >= now
  /\ now' = d
  /\ runs' = Append(runs,
       IF Filter(f.event) = "proceed"
         THEN NewRun(f, d, "mkdirp", "running")
         ELSE NewRun(f, d, "done", "null"))
  /\ UNCHANGED <<objects, fired, tmpDirs, tmpFiles, docs, redeliver>>

SetRun(i, r) == runs' = [runs EXCEPT ![i] = r]

\* await mkdirp(tempLocalDir): line 63.
Mkdirp(i, ok) ==
  /\ runs[i].pc = "mkdirp"
  /\ LET r == Logged(runs[i], <<"mkdirp">>)
     IN IF ok
          THEN /\ tmpDirs' = tmpDirs \cup {tempLocalDir(r.event)}
               /\ SetRun(i, Goto(r, "download"))
          ELSE /\ tmpDirs' = tmpDirs
               /\ SetRun(i, Throw(r, "mkdirp"))
  /\ UNCHANGED <<objects, fired, tmpFiles, docs, now, redeliver>>

\* Variant: the download of an object that is not there writes an empty file.
Download_emptyWhenAbsent(i, ok) ==
  /\ runs[i].pc = "download"
  /\ LET e == runs[i].event
         src == tempLocalFile(e)
         dst == tempLocalScaledFile(e, runs[i].date)
         r == Logged(runs[i], <<"download">>)
     IN IF ~(ok /\ tempLocalDir(e) \in tmpDirs)
          THEN /\ tmpFiles' = tmpFiles
               /\ SetRun(i, Throw(r, "download"))
          ELSE LET c == IF filePath(e) \in DOMAIN objects THEN objects[filePath(e)] ELSE Junk
                   r2 == Logged(r, <<"statSync", "sizeOf">>)
                   r3 == [r2 EXCEPT !.imgDimensions = Some(<<c.width, c.height>>)]
               IN IF c.kind = "undecodable"
                    THEN /\ tmpFiles' = Put(tmpFiles, src, c)
                         /\ SetRun(i, Throw(r2, "sizeOf"))
                  ELSE IF c.width > MaxWidth
                    THEN /\ tmpFiles' = Put(tmpFiles, src, c)
                         /\ SetRun(i, Goto(r3, "convert"))
                  ELSE IF dirname(dst) \in tmpDirs
                    THEN /\ tmpFiles' = Put(Put(tmpFiles, src, c), dst, c)
                         /\ SetRun(i, Goto(Logged(r3, <<"copyFileSync">>), "upload"))
                  ELSE /\ tmpFiles' = Put(tmpFiles, src, c)
                       /\ SetRun(i, Throw(Logged(r3, <<"copyFileSync">>), "copyFileSync"))
  /\ UNCHANGED <<objects, fired, tmpDirs, docs, now, redeliver>>

\* await bucket.file(filePath).download(...) and the code that follows it up
\* to the next await: lines 65-78 when the image is too large (convert is
\* spawned), lines 65-91 otherwise (the file is copied, the upload started).
Download(i, ok) ==
  /\ runs[i].pc = "download"
  /\ LET e == runs[i].event
         src == tempLocalFile(e)
         dst == tempLocalScaledFile(e, runs[i].date)
         r == Logged(runs[i], <<"download">>)
     IN IF ~(ok /\ filePath(e) \in DOMAIN objects /\ tempLocalDir(e) \in tmpDirs)
          THEN /\ tmpFiles' = tmpFiles
               /\ SetRun(i, Throw(r, "download"))
          ELSE LET c == objects[filePath(e)]
                   r2 == Logged(r, <<"statSync", "sizeOf">>)
                   r3 == [r2 EXCEPT !.imgDimensions = Some(<<c.width, c.height>>)]
               IN IF c.kind = "undecodable"
                    THEN /\ tmpFiles' = Put(tmpFiles, src, c)
                         /\ SetRun(i, Throw(r2, "sizeOf"))
                  ELSE IF c.width > MaxWidth
                    THEN /\ tmpFiles' = Put(tmpFiles, src, c)
                         /\ SetRun(i, Goto(r3, "convert"))
                  ELSE IF dirname(dst) \in tmpDirs
                    THEN /\ tmpFiles' = Put(Put(tmpFiles, src, c), dst, c)
                         /\ SetRun(i, Goto(Logged(r3, <<"copyFileSync">>), "upload"))
                  ELSE /\ tmpFiles' = Put(tmpFiles, src, c)
                       /\ SetRun(i, Throw(Logged(r3, <<"copyFileSync">>), "copyFileSync"))
  /\ UNCHANGED <<objects, fired, tmpDirs, docs, now, redeliver>>

\* await spawn("convert", [tempLocalFile, "-resize", "x1080",
\* tempLocalScaledFile]): lines 79-84.
Convert(i, ok) ==
  /\ runs[i].pc = "convert"
  /\ LET e == runs[i].event
         src == tempLocalFile(e)
         dst == tempLocalScaledFile(e, runs[i].date)
         r == Logged(runs[i], <<"convert">>)
     IN IF ok /\ src \in DOMAIN tmpFiles /\ dirname(dst) \in tmpDirs
          THEN /\ tmpFiles' = Put(tmpFiles, dst, Resized(tmpFiles[src]))
               /\ SetRun(i, Goto(r, "upload"))
          ELSE /\ tmpFiles' = tmpFiles
               /\ SetRun(i, Throw(r, "convert"))
  /\ UNCHANGED <<objects, fired, tmpDirs, docs, now, redeliver>>

\* The finalize event of the object a run uploads.  The upload names only a
\* destination (lines 91-93): the new object has no custom metadata, and its
\* content type follows from its name, which keeps the original's extension.
ArtifactEvent(r) ==
  UploadEvent(bucketFilePath(r.event, r.date), r.event.contentType, None)

\* Variant: the original is deleted right after the upload; the signed URL
\* is not requested and the local files are not removed.
Upload_thenDelete(i, ok) ==
  /\ runs[i].pc = "upload"
  /\ LET e == runs[i].event
         dst == tempLocalScaledFile(e, runs[i].date)
         r == Logged(runs[i], <<"upload">>)
     IN IF ok /\ dst \in DOMAIN tmpFiles
          THEN /\ objects' = Put(objects, bucketFilePath(e, r.date), tmpFiles[dst])
               /\ fired' = fired \cup {[event |-> ArtifactEvent(r), by |-> "self"]}
               /\ SetRun(i, Goto([r EXCEPT !.destination = Some(bucketFilePath(e, r.date))],
                                  "delete"))
          ELSE /\ objects' = objects
               /\ fired' = fired
               /\ SetRun(i, Throw(r, "upload"))
  /\ UNCHANGED <<tmpDirs, tmpFiles, docs, now, redeliver>>

\* await bucket.upload(tempLocalScaledFile, {destination: bucketFilePath}):
\* lines 90-94.
Upload(i, ok) ==
  /\ runs[i].pc = "upload"
  /\ LET e == runs[i].event
         dst == tempLocalScaledFile(e, runs[i].date)
         r == Logged(runs[i], <<"upload">>)
     IN IF ok /\ dst \in DOMAIN tmpFiles
          THEN /\ objects' = Put(objects, bucketFilePath(e, r.date), tmpFiles[dst])
               /\ fired' = fired \cup {[event |-> ArtifactEvent(r), by |-> "self"]}
               /\ SetRun(i, Goto([r EXCEPT !.destination = Some(bucketFilePath(e, r.date))],
                                  "getSignedUrl"))
          ELSE /\ objects' = objects
               /\ fired' = fired
               /\ SetRun(i, Throw(r, "upload"))
  /\ UNCHANGED <<tmpDirs, tmpFiles, docs, now, redeliver>>

\* Variant: a failure of getSignedUrl is swallowed and the run goes on.
GetSignedUrl_swallow(i, ok) ==
  /\ runs[i].pc = "getSignedUrl"
  /\ LET e == runs[i].event
         src == tempLocalFile(e)
         dst == tempLocalScaledFile(e, runs[i].date)
         r == Logged(runs[i], <<"getSignedUrl">>)
         r2 == IF ok
                 THEN [r EXCEPT !.signedImageUrl = Some(SignedUrl(UploadedFile(e, r.date)))]
                 ELSE r
         r3 == Logged(r2, <<"unlinkSync">>)
         r4 == Logged(r3, <<"unlinkSync">>)
     IN IF dst \notin DOMAIN tmpFiles
          THEN /\ tmpFiles' = tmpFiles
               /\ SetRun(i, Throw(r3, "unlinkSync"))
        ELSE IF src \notin DOMAIN Del(tmpFiles, dst)
          THEN /\ tmpFiles' = Del(tmpFiles, dst)
               /\ SetRun(i, Throw(r4, "unlinkSync"))
        ELSE /\ tmpFiles' = Del(Del(tmpFiles, dst), src)
             /\ SetRun(i, Goto(r4, "delete"))
  /\ UNCHANGED <<objects, fired, tmpDirs, docs, now, redeliver>>

\* await response[0].getSignedUrl(...), then fs.unlinkSync of both local
\* files, up to the call of delete: lines 96-109.
GetSignedUrl(i, ok) ==
  /\ runs[i].pc = "getSignedUrl"
  /\ LET e == runs[i].event
         src == tempLocalFile(e)
         dst == tempLocalScaledFile(e, runs[i].date)
         r == Logged(runs[i], <<"getSignedUrl">>)
         r2 == [r EXCEPT !.signedImageUrl = Some(SignedUrl(UploadedFile(e, r.date)))]
         r3 == Logged(r2, <<"unlinkSync">>)
         r4 == Logged(r3, <<"unlinkSync">>)
     IN IF ~ok
          THEN /\ tmpFiles' = tmpFiles
               /\ SetRun(i, Throw(r, "getSignedUrl"))
        ELSE IF dst \notin DOMAIN tmpFiles
          THEN /\ tmpFiles' = tmpFiles
               /\ SetRun(i, Throw(r3, "unlinkSync"))
        ELSE IF src \notin DOMAIN Del(tmpFiles, dst)
          THEN /\ tmpFiles' = Del(tmpFiles, dst)
               /\ SetRun(i, Throw(r4, "unlinkSync"))
        ELSE /\ tmpFiles' = Del(Del(tmpFiles, dst), src)
             /\ SetRun(i, Goto(r4, "delete"))
  /\ UNCHANGED <<objects, fired, tmpDirs, docs, now, redeliver>>

\* object.metadata.messageOrigin: reading a property of undefined throws.
HasMetadata(e) == e.metadata # None
HasOrigin(e) == HasMetadata(e) /\ "messageOrigin" \in DOMAIN e.metadata[1]

\* Variant: the delete ignores an object that is not there.
DeleteOriginal_ignoreNotFound(i, ok) ==
  /\ runs[i].pc = "delete"
  /\ LET e == runs[i].event
         r == Logged(runs[i], <<"delete">>)
         target == DeleteTarget(e, r.date)
     IN IF ~ok
          THEN /\ objects' = objects
               /\ SetRun(i, Throw(r, "delete"))
          ELSE /\ objects' = Del(objects, target)
               /\ IF ~HasMetadata(e) THEN SetRun(i, Throw(r, "metadata"))
                  ELSE IF ~HasOrigin(e) THEN SetRun(i, Throw(r, "doc"))
                  ELSE SetRun(i, Goto(r, "update"))
  /\ UNCHANGED <<fired, tmpDirs, tmpFiles, docs, now, redeliver>>

\* await bucket.file(filePath).delete(), then the evaluation of
\* admin.firestore().doc(object.metadata.messageOrigin) up to the call of
\* update: lines 109-111.  doc() rejects a path that is not a string.
DeleteOriginal(i, ok) ==
  /\ runs[i].pc = "delete"
  /\ LET e == runs[i].event
         r == Logged(runs[i], <<"delete">>)
         target == DeleteTarget(e, r.date)
     IN IF ~(ok /\ target \in DOMAIN objects)
          THEN /\ objects' = objects
               /\ SetRun(i, Throw(r, "delete"))
          ELSE /\ objects' = Del(objects, target)
               /\ IF ~HasMetadata(e) THEN SetRun(i, Throw(r, "metadata"))
                  ELSE IF ~HasOrigin(e) THEN SetRun(i, Throw(r, "doc"))
                  ELSE SetRun(i, Goto(r, "update"))
  /\ UNCHANGED <<fired, tmpDirs, tmpFiles, docs, now, redeliver>>

\* Variant: a failed update is compensated, the uploaded artifact is deleted.
UpdateOrigin_rollback(i, ok) ==
  /\ runs[i].pc = "update"
  /\ LET e == runs[i].event
         d == e.metadata[1].messageOrigin
         r == Logged(runs[i], <<"update">>)
     IN IF ok /\ d \in DOMAIN docs
          THEN /\ docs' = [docs EXCEPT ![d].resource = r.signedImageUrl]
               /\ objects' = objects
               /\ SetRun(i, [r EXCEPT !.pc = "done", !.outcome = "ok",
                               !.result = Some([originalMetadata |-> e.metadata[1],
                                                url |-> r.signedImageUrl[1]])])
          ELSE /\ docs' = docs
               /\ objects' = Del(objects, r.destination[1])
               /\ SetRun(i, Throw(r, "update"))
  /\ UNCHANGED <<fired, tmpDirs, tmpFiles, now, redeliver>>

\* await admin.firestore().doc(...).update({resource: signedImageUrl}) and
\* the return: lines 111-115.
UpdateOrigin(i, ok) ==
  /\ runs[i].pc = "update"
  /\ LET e == runs[i].event
         d == e.metadata[1].messageOrigin
         r == Logged(runs[i], <<"update">>)
     IN IF ok /\ d \in DOMAIN docs
          THEN /\ docs' = [docs EXCEPT ![d].resource = r.signedImageUrl]
               /\ SetRun(i, [r EXCEPT !.pc = "done", !.outcome = "ok",
                               !.result = Some([originalMetadata |-> e.metadata[1],
                                                url |-> r.signedImageUrl[1]])])
          ELSE /\ docs' = docs
               /\ SetRun(i, Throw(r, "update"))
  /\ UNCHANGED <<objects, fired, tmpDirs, tmpFiles, now, redeliver>>

Next ==
  \/ \E f \in fired, d \in 0..MaxClock : Invoke(f, d)
  \/ \E i \in RunIds, ok \in BOOLEAN : Mkdirp(i, ok)
  \/ \E i \in RunIds, ok \in BOOLEAN : Download(i, ok)
  \/ \E i \in RunIds, ok \in BOOLEAN : Convert(i, ok)
  \/ \E i \in RunIds, ok \in BOOLEAN : Upload(i, ok)
  \/ \E i \in RunIds, ok \in BOOLEAN : GetSignedUrl(i, ok)
  \/ \E i \in RunIds, ok \in BOOLEAN : DeleteOriginal(i, ok)
  \/ \E i \in RunIds, ok \in BOOLEAN : UpdateOrigin(i, ok)

Spec == Init /\ [][Next]_vars

(***************************************************************************)
(* Two uploads into one staging directory, under different names, one of   *)
(* which starts with a timestamp; each finalize event is delivered once.   *)
(***************************************************************************)
StagingDir == <<"files", "/", "u1", "/", "assets", "/", "upload", "/">>
PairNames ==
  { StagingDir \o <<"pic", ".", "png">>,
    StagingDir \o <<"cat", ".", "png">>,
    StagingDir \o <<"T", "0", "_", "pic", ".", "png">>,
    StagingDir \o <<"T", "1", "_", "T", "0", "_", "pic", ".", "png">> }
SmallImage == Image(1080, 810)
LargeImage == Image(4000, 3000)
PairEvent(name) ==
  UploadEvent(name, Some(<<"image", "/", "png">>),
              Some([author |-> "u1", messageOrigin |-> Doc1]))

\* One of the two objects needs no downscaling, the other does.
PairInit ==
  \E n1 \in PairNames, n2 \in PairNames :
    /\ n1 # n2
    /\ objects = Put(Put(EmptyMap, n1, SmallImage), n2, LargeImage)
    /\ fired = {[event |-> PairEvent(n1), by |-> "user"],
                [event |-> PairEvent(n2), by |-> "user"]}
    /\ tmpDirs = {}
    /\ tmpFiles = EmptyMap
    /\ docs = [d \in DocPaths |-> [resource |-> None]]
    /\ now = 0
    /\ redeliver = FALSE
    /\ runs = <<>>

PairSpec == PairInit /\ [][Next]_vars

(***************************************************************************)
(* One upload of a decodable image, of any of several dimensions around    *)
(* the limit of 1080, into the staging directory; delivered once.          *)
(***************************************************************************)
DimContents == {Image(w, h) : w \in {500, 1080, 1081, 2000}, h \in {500, 1080, 2000}}

DimInit ==
  \E c \in DimContents :
    /\ objects = Put(EmptyMap, StagingDir \o <<"pic", ".", "png">>, c)
    /\ fired = {[event |-> PairEvent(StagingDir \o <<"pic", ".", "png">>), by |-> "user"]}
    /\ tmpDirs = {}
    /\ tmpFiles = EmptyMap
    /\ docs = [d \in DocPaths |-> [resource |-> None]]
    /\ now = 0
    /\ redeliver = FALSE
    /\ runs = <<>>

DimSpec == DimInit /\ [][Next]_vars

(***************************************************************************)
(* Two uploads under different keys, the second of which may spell the     *)
(* staging directory of the first with an empty or a "." segment; each     *)
(* finalize event is delivered once.                                       *)
(***************************************************************************)
AliasNames ==
  { <<"files", "/", "u1", "/", "assets", "/", "/", "upload", "/", "pic", ".", "png">>,
    <<"files", "/", "u1", "/", ".", "/", "assets", "/", "upload", "/", "pic", ".", "png">>,
    StagingDir \o <<"cat", ".", "png">> }

AliasInit ==
  \E n2 \in AliasNames :
    LET n1 == StagingDir \o <<"pic", ".", "png">>
    IN /\ objects = Put(Put(EmptyMap, n1, SmallImage), n2, LargeImage)
       /\ fired = {[event |-> PairEvent(n1), by |-> "user"],
                   [event |-> PairEvent(n2), by |-> "user"]}
       /\ tmpDirs = {}
       /\ tmpFiles = EmptyMap
       /\ docs = [d \in DocPaths |-> [resource |-> None]]
       /\ now = 0
       /\ redeliver = FALSE
       /\ runs = <<>>

AliasSpec == AliasInit /\ [][Next]_vars


(***************************************************************************)
(* What a run has done, read from its record.                              *)
(***************************************************************************)
Called(r, op) == \E k \in 1..Len(r.log) : r.log[k] = op
\* The operation was called and did not fail.
Did(r, op) == Called(r, op) /\ r.failedAt # op
Ended(r) == r.pc = "done"
Proceeded(r) == r.outcome # "null"
\* A skipped run: it returned null at once and has called nothing.
Skipped(r) ==
  /\ r.pc = "done" /\ r.outcome = "null" /\ r.failedAt = "none"
  /\ r.log = <<>> /\ r.result = None
\* The step appends a run, which leaves every store as it was.
StartsRun == Len(runs') = Len(runs) + 1
NoEffect == UNCHANGED <<objects, fired, tmpDirs, tmpFiles, docs>>

(***************************************************************************)
(* C1.  The original object is deleted only by a run that has, before,     *)
(* uploaded the scaled artifact and obtained its signed URL; a run that    *)
(* ends because mkdirp, download, decode, copy, resize, upload or          *)
(* signed-URL issuance failed has called no delete, and its original is    *)
(* still in the bucket unless another run of the same object deleted it.   *)
(***************************************************************************)
EarlyFailures ==
  {"mkdirp", "download", "sizeOf", "copyFileSync", "convert", "upload", "getSignedUrl"}

C1_DeleteAfterUrl ==
  \A k \in DOMAIN objects :
    k \notin DOMAIN objects' =>
      \E i \in RunIds :
        /\ runs[i].pc = "delete"
        /\ runs'[i] # runs[i]
        /\ runs[i].event.name = k
        /\ Did(runs[i], "upload")
        /\ Did(runs[i], "getSignedUrl")
        /\ runs[i].destination # None
        /\ runs[i].signedImageUrl # None

C1_OriginalKept ==
  \A i \in RunIds :
    (Ended(runs[i]) /\ runs[i].failedAt \in EarlyFailures) =>
      /\ ~Called(runs[i], "delete")
      /\ \/ runs[i].event.name \in DOMAIN objects
         \/ \E j \in RunIds \ {i} :
              /\ runs[j].event.name = runs[i].event.name
              /\ Did(runs[j], "delete")

C1_DeleteOnlyAfterUploadAndUrl == [][C1_DeleteAfterUrl]_vars /\ []C1_OriginalKept

C1_Witness ==
  \E i \in RunIds :
    /\ Did(runs[i], "delete")
    /\ runs[i].event.name \notin DOMAIN objects
    /\ runs[i].destination # None
    /\ runs[i].destination[1] \in DOMAIN objects

C2_EndState ==
  \A i \in RunIds :
    Ended(runs[i]) =>
      /\ Did(runs[i], "delete") =>
           (Did(runs[i], "upload") /\ runs[i].signedImageUrl # None)
      /\ (/\ Did(runs[i], "upload")
          /\ runs[i].signedImageUrl # None
          /\ runs[i].failedAt \notin {"unlinkSync", "delete"})
           => Did(runs[i], "delete")

C2_DeleteRemovesOriginal ==
  \A i \in RunIds :
    (~Called(runs[i], "delete") /\ Did(runs'[i], "delete")) =>
      /\ runs[i].event.name \in DOMAIN objects
      /\ runs[i].event.name \notin DOMAIN objects'

C3_TempFilesRemoved ==
  \A i \in RunIds :
    Ended(runs[i]) =>
      /\ tempLocalFile(runs[i].event) \notin DOMAIN tmpFiles
      /\ tempLocalScaledFile(runs[i].event, runs[i].date) \notin DOMAIN tmpFiles

(***************************************************************************)
(* C4.  A run whose event has no content type, or one that does not start  *)
(* with "image/", returns null at once: it makes no call, creates no       *)
(* local file and changes no store, whatever its path and metadata.        *)
(***************************************************************************)
C4_NotImage(e) ==
  \/ e.contentType = None
  \/ ~startsWith(e.contentType[1], <<"image", "/">>)

C4_NonImageSkipped ==
  \A i \in RunIds : C4_NotImage(runs[i].event) => Skipped(runs[i])

C4_NonImageNoEffect ==
  (StartsRun /\ C4_NotImage(runs'[Len(runs')].event)) => NoEffect

C4_NonImageReturnsEarly == []C4_NonImageSkipped /\ [][C4_NonImageNoEffect]_vars

C4_Witness ==
  \E i \in RunIds :
    /\ runs[i].event.contentType = None
    /\ endsWith(dirname(runs[i].event.name), <<"/", "upload">>)
    /\ runs[i].event.metadata # None
    /\ Skipped(runs[i])

(***************************************************************************)
(* C5.  As stated: an image event whose directory's last segment is not    *)
(* "upload" is skipped with no call made, and every image event whose      *)
(* directory's last segment is "upload" proceeds.                          *)
(***************************************************************************)
C5_LastSegmentIsUpload(e) == basename(dirname(e.name)) = <<"upload">>

C5_StagingDecidesFilter ==
  \A i \in RunIds :
    ~C4_NotImage(runs[i].event) =>
      IF C5_LastSegmentIsUpload(runs[i].event)
        THEN Proceeded(runs[i])
        ELSE Skipped(runs[i])
(***************************************************************************)
(* C6.  As stated: the finalize event fired by a run's own upload is       *)
(* skipped by the filter, so no run triggered by the handler's own output  *)
(* proceeds.                                                               *)
(***************************************************************************)
C6_OwnOutputSkipped ==
  \A i \in RunIds : runs[i].trigger = "self" => Skipped(runs[i])

(***************************************************************************)
(* C7.  As stated: the destination key of every upload is the original's   *)
(* directory with its last segment "upload" replaced by "images" and       *)
(* nothing else changed, followed by "<timestamp>_<basename>"; it lies in  *)
(* a directory named "images".                                             *)
(***************************************************************************)
C7_Expected(e, d) ==
  LET dir == dirname(e.name)
  IN SubSeq(dir, 1, Len(dir) - 1) \o <<"images", "/">>
       \o <<"T", ToString(d), "_">> \o basename(e.name)

C7_DestinationInImages ==
  \A i \in RunIds :
    runs[i].destination # None =>
      /\ runs[i].destination[1] = C7_Expected(runs[i].event, runs[i].date)
      /\ basename(dirname(runs[i].destination[1])) = <<"images">>

(***************************************************************************)
(* C8.  When a run on an event with messageOrigin = D succeeds, the update *)
(* that completes it leaves document D with resource equal to the signed   *)
(* read URL of the artifact the run uploaded, and the run's result is the  *)
(* event's metadata with that same URL.                                    *)
(***************************************************************************)
C8_UrlOfArtifact(r, u) ==
  /\ r.destination # None
  /\ u = [bucket |-> r.event.bucket, key |-> r.destination[1],
          action |-> "read", expires |-> "01-01-2222"]

C8_Result ==
  \A i \in RunIds :
    runs[i].outcome = "ok" =>
      /\ runs[i].event.metadata # None
      /\ runs[i].result # None
      /\ runs[i].result[1].originalMetadata = runs[i].event.metadata[1]
      /\ C8_UrlOfArtifact(runs[i], runs[i].result[1].url)

C8_UpdateSetsResource ==
  \A i \in RunIds :
    (runs[i].outcome # "ok" /\ runs'[i].outcome = "ok") =>
      /\ runs[i].pc = "update"
      /\ docs'[runs[i].event.metadata[1].messageOrigin].resource
           = Some(runs'[i].result[1].url)

C8_OriginUpdatedAndResultReturned == []C8_Result /\ [][C8_UpdateSetsResource]_vars

C8_Witness ==
  \E i \in RunIds :
    /\ runs[i].outcome = "ok"
    /\ runs[i].result # None
    /\ docs[Doc1].resource = Some(runs[i].result[1].url)

(***************************************************************************)
(* C9.  As stated: a run that passed the filter on an event without a      *)
(* messageOrigin key (or without metadata), and has uploaded the artifact  *)
(* and deleted the original, attempts no document update and ends with a   *)
(* result, not an error.                                                   *)
(***************************************************************************)
C9_NoOrigin(e) ==
  \/ e.metadata = None
  \/ "messageOrigin" \notin DOMAIN e.metadata[1]

C9_MissingOriginStillSucceeds ==
  \A i \in RunIds :
    (Ended(runs[i]) /\ C9_NoOrigin(runs[i].event) /\ Did(runs[i], "delete")) =>
      /\ ~Called(runs[i], "update")
      /\ runs[i].outcome = "ok"
      /\ runs[i].result # None

(***************************************************************************)
(* C10.  Two runs on objects of one staging directory with different file  *)
(* names never upload to the same destination key, whether their           *)
(* timestamps are equal or not, and also when a name starts with a         *)
(* timestamp.                                                              *)
(***************************************************************************)
C10_DistinctNamesDistinctKeys ==
  \A i \in RunIds, j \in RunIds :
    (/\ runs[i].destination # None
     /\ runs[j].destination # None
     /\ dirname(runs[i].event.name) = dirname(runs[j].event.name)
     /\ basename(runs[i].event.name) # basename(runs[j].event.name))
      => runs[i].destination[1] # runs[j].destination[1]

C10_Witness ==
  \E i \in RunIds, j \in RunIds :
    /\ runs[i].destination # None
    /\ runs[j].destination # None
    /\ runs[i].date = runs[j].date
    /\ basename(runs[i].event.name) # basename(runs[j].event.name)
    /\ startsWith(basename(runs[i].event.name), <<"T">>)
    /\ runs[i].destination[1] \in DOMAIN objects
    /\ runs[j].destination[1] \in DOMAIN objects

(***************************************************************************)
(* C11.  Any two runs that process the same original key, a duplicate      *)
(* delivery of one event included, derive different destination keys, so   *)
(* that no run overwrites the artifact of another.                         *)
(***************************************************************************)
C11_SameKeyDistinctDestinations ==
  \A i, j \in RunIds :
    (/\ i # j
     /\ runs[i].event.name = runs[j].event.name
     /\ runs[i].destination # None
     /\ runs[j].destination # None)
    => runs[i].destination[1] # runs[j].destination[1]

(***************************************************************************)
(* C12.  While the original and the artifact of a run that has uploaded    *)
(* are both in the bucket: if the original is more than 1080 wide, the run *)
(* has called the resize exactly once and not the copy, and the artifact   *)
(* is the resize output, 1080 high; if it is at most 1080 wide (1080       *)
(* included), the run has never called the resize and the artifact is      *)
(* identical to the original.                                              *)
(***************************************************************************)
C12_Uploaded(r) ==
  /\ r.destination # None
  /\ r.destination[1] \in DOMAIN objects
  /\ filePath(r.event) \in DOMAIN objects

C12_ResizeOnlyWhenWider ==
  \A i \in RunIds :
    C12_Uploaded(runs[i]) =>
      LET r == runs[i]
          orig == objects[filePath(r.event)]
          art == objects[r.destination[1]]
      IN IF orig.width > 1080
           THEN /\ Cardinality(Occurrences(r.log, <<"convert">>)) = 1
                /\ ~Called(r, "copyFileSync")
                /\ art.kind = "resized"
                /\ art.height = 1080
                /\ art = Resized(orig)
           ELSE /\ ~Called(r, "convert")
                /\ Called(r, "copyFileSync")
                /\ art = orig

\* A run has uploaded the unchanged copy of an image exactly 1080 wide.
C12_Witness ==
  \E i \in RunIds :
    /\ C12_Uploaded(runs[i])
    /\ objects[filePath(runs[i].event)].width = 1080
    /\ objects[runs[i].destination[1]] = objects[filePath(runs[i].event)]
    /\ ~Called(runs[i], "convert")

(***************************************************************************)
(* C13.  When the update of the origin document fails, the run ends with   *)
(* an error and nothing is rolled back: the failing step changes no store  *)
(* (the artifact and its URL stay, no object is restored or removed), and  *)
(* a run that has failed there has uploaded, holds the signed URL, has     *)
(* deleted its original, which stays deleted, and has called nothing       *)
(* after the update.                                                       *)
(***************************************************************************)
C13_FailedUpdateStep ==
  \A i \in RunIds :
    (runs[i].pc = "update" /\ runs'[i] # runs[i] /\ runs'[i].outcome # "ok")
    => /\ runs'[i].outcome = "error"
       /\ runs'[i].pc = "done"
       /\ runs'[i].log = runs[i].log \o <<"update">>
       /\ runs'[i].signedImageUrl = runs[i].signedImageUrl
       /\ runs'[i].destination = runs[i].destination
       /\ UNCHANGED <<objects, fired, tmpDirs, tmpFiles, docs>>

C13_AfterFailedUpdate ==
  \A i \in RunIds :
    runs[i].failedAt = "update"
    => /\ runs[i].outcome = "error"
       /\ Ended(runs[i])
       /\ runs[i].result = None
       /\ Did(runs[i], "upload")
       /\ runs[i].signedImageUrl = Some(SignedUrl(runs[i].destination[1]))
       /\ Did(runs[i], "delete")
       /\ filePath(runs[i].event) \notin DOMAIN objects
       /\ runs[i].log[Len(runs[i].log)] = "update"
       /\ Cardinality(Occurrences(runs[i].log, <<"delete">>)) = 1
       /\ Cardinality(Occurrences(runs[i].log, <<"upload">>)) = 1

C13_FailedUpdateNotRolledBack ==
  [][C13_FailedUpdateStep]_vars /\ []C13_AfterFailedUpdate

\* A run has failed at the update while its artifact is in the bucket, its
\* original is gone and the document is unset.
C13_Witness ==
  \E i \in RunIds :
    /\ runs[i].failedAt = "update"
    /\ runs[i].destination[1] \in DOMAIN objects
    /\ filePath(runs[i].event) \notin DOMAIN objects
    /\ docs[runs[i].event.metadata[1].messageOrigin].resource = None

(***************************************************************************)
(* C14.  No image is ever enlarged: the artifact of a run is no wider and  *)
(* no higher than its original (of width w and height h), also when        *)
(* w > 1080 and h < 1080, and whenever w > 1080 the artifact is exactly    *)
(* 1080 high.                                                              *)
(***************************************************************************)
C14_NeverEnlarged ==
  \A i \in RunIds :
    C12_Uploaded(runs[i]) =>
      LET orig == objects[filePath(runs[i].event)]
          art == objects[runs[i].destination[1]]
      IN /\ art.width <= orig.width
         /\ art.height <= orig.height
         /\ orig.width > 1080 => art.height = 1080

(***************************************************************************)
(* C15.  A run that succeeds has passed the filter and has called, once    *)
(* each and in this order: download (after mkdirp, followed by the read of *)
(* size and dimensions), the transform (resize or copy), upload,           *)
(* getSignedUrl, the removal of the two local files, the deletion of the   *)
(* original, the document update; then it has returned its result.  No run *)
(* calls the update twice, nor before it holds the signed URL, and a run   *)
(* that is about to delete or has deleted its original has removed both    *)
(* local files before.                                                     *)
(***************************************************************************)
C15_Steps(transform) ==
  <<"mkdirp", "download", "statSync", "sizeOf", transform, "upload",
    "getSignedUrl", "unlinkSync", "unlinkSync", "delete", "update">>

C15_UpTo(r, n) ==
  /\ Len(r.log) >= n
  /\ \/ SubSeq(r.log, 1, n) = SubSeq(C15_Steps("convert"), 1, n)
     \/ SubSeq(r.log, 1, n) = SubSeq(C15_Steps("copyFileSync"), 1, n)

C15_StepsInOrder ==
  \A i \in RunIds :
    LET r == runs[i]
    IN /\ r.outcome = "ok"
          => /\ Filter(r.event) = "proceed"
             /\ Len(r.log) = 11
             /\ C15_UpTo(r, 11)
             /\ Ended(r)
             /\ r.result # None
       /\ Cardinality(Occurrences(r.log, <<"update">>)) <= 1
       /\ (r.pc = "update" \/ Called(r, "update"))
          => r.signedImageUrl # None /\ C15_UpTo(r, 10)
       /\ (r.pc = "delete" \/ Called(r, "delete")) => C15_UpTo(r, 9)

\* A run of an image that had to be resized has succeeded.
C15_Witness ==
  \E i \in RunIds :
    /\ runs[i].outcome = "ok"
    /\ runs[i].log = C15_Steps("convert")
    /\ docs[Doc1].resource = runs[i].signedImageUrl

(***************************************************************************)
(* C16.  Every step is fatal and none is retried: a run calls each         *)
(* external operation at most once (unlinkSync once per local file); a run *)
(* in which a step has failed has ended with an error and no result, and   *)
(* the failed call is the last one it made; a run that failed decoding or  *)
(* resizing the image has called no upload, no delete and no update.       *)
(***************************************************************************)
C16_Operations ==
  {"mkdirp", "download", "statSync", "sizeOf", "copyFileSync", "convert",
   "upload", "getSignedUrl", "delete", "update"}

\* The call during or right after which the run failed.
C16_LastCall(r) == IF r.failedAt \in {"metadata", "doc"} THEN "delete" ELSE r.failedAt

C16_FatalAndNeverRetried ==
  \A i \in RunIds :
    LET r == runs[i]
    IN /\ \A op \in C16_Operations : Cardinality(Occurrences(r.log, <<op>>)) <= 1
       /\ Cardinality(Occurrences(r.log, <<"unlinkSync">>)) <= 2
       /\ r.outcome = "error" <=> r.failedAt # "none"
       /\ r.failedAt # "none"
          => /\ Ended(r)
             /\ r.result = None
             /\ r.log # <<>>
             /\ r.log[Len(r.log)] = C16_LastCall(r)
       /\ r.failedAt \in {"sizeOf", "convert"}
          => /\ ~Called(r, "upload")
             /\ ~Called(r, "delete")
             /\ ~Called(r, "update")
             /\ r.destination = None

\* The resize of a run has failed; its original is still in the bucket.
C16_Witness ==
  \E i \in RunIds :
    /\ runs[i].failedAt = "convert"
    /\ Ended(runs[i])
    /\ filePath(runs[i].event) \in DOMAIN objects
    /\ \A j \in RunIds : runs[j].destination = None

(***************************************************************************)
(* C17.  Two runs in progress at the same time for different events, over  *)
(* the same scratch area, have different local scratch files and different *)
(* local scaled files.                                                     *)
(***************************************************************************)
C17_DistinctLocalPaths ==
  \A i, j \in RunIds :
    (/\ i # j
     /\ runs[i].event # runs[j].event
     /\ ~Ended(runs[i])
     /\ ~Ended(runs[j]))
    => /\ tempLocalFile(runs[i].event) # tempLocalFile(runs[j].event)
       /\ tempLocalScaledFile(runs[i].event, runs[i].date)
            # tempLocalScaledFile(runs[j].event, runs[j].date)

(***************************************************************************)
(* C18.  Of the runs of one uploaded object (an object a user wrote, which *)
(* is written once; its finalize event may be delivered again), at most    *)
(* one has deleted the original, at most one has called the update of the  *)
(* origin document and at most one has returned a result; once one has     *)
(* deleted the original, every other run that has ended has ended with an  *)
(* error.                                                                  *)
(***************************************************************************)
C18_SameUpload(i, j) ==
  /\ i # j
  /\ runs[i].trigger = "user"
  /\ runs[j].trigger = "user"
  /\ runs[i].event = runs[j].event

C18_AtMostOneCompletes ==
  \A i, j \in RunIds :
    C18_SameUpload(i, j)
    => /\ ~(Did(runs[i], "delete") /\ Did(runs[j], "delete"))
       /\ ~(Called(runs[i], "update") /\ Called(runs[j], "update"))
       /\ ~(runs[i].result # None /\ runs[j].result # None)
       /\ (Did(runs[i], "delete") /\ Ended(runs[j]))
          => /\ runs[j].outcome = "error"
             /\ runs[j].result = None

\* Of two runs of one upload, both of which uploaded an artifact, one has
\* succeeded and the other has failed at the delete.
C18_Witness ==
  \E i, j \in RunIds :
    /\ C18_SameUpload(i, j)
    /\ runs[i].outcome = "ok"
    /\ runs[j].failedAt = "delete"
    /\ runs[j].destination # None

(***************************************************************************)
(* C19.  A run that comes to its download when its original is not in the  *)
(* bucket fails there, the step changes no store, and a run that failed at *)
(* the download has called no upload, no delete and no update.  Hence,     *)
(* once a run of an upload has failed at the document update, the resource *)
(* field of the document is never set: it is unset and no other run of     *)
(* that upload has called or will call the update.                         *)
(***************************************************************************)
C19_DownloadOfAbsentOriginal ==
  \A i \in RunIds :
    (/\ runs[i].pc = "download"
     /\ runs'[i] # runs[i]
     /\ filePath(runs[i].event) \notin DOMAIN objects)
    => /\ runs'[i].failedAt = "download"
       /\ runs'[i].outcome = "error"
       /\ runs'[i].pc = "done"
       /\ UNCHANGED <<objects, fired, tmpFiles, docs>>

C19_AfterFailure ==
  \A i \in RunIds :
    /\ runs[i].failedAt = "download"
       => /\ ~Called(runs[i], "upload")
          /\ ~Called(runs[i], "delete")
          /\ ~Called(runs[i], "update")
          /\ runs[i].destination = None
    /\ (runs[i].failedAt = "update" /\ runs[i].trigger = "user")
       => /\ docs[runs[i].event.metadata[1].messageOrigin].resource = None
          /\ filePath(runs[i].event) \notin DOMAIN objects
          /\ \A j \in RunIds :
               (j # i /\ runs[j].event = runs[i].event)
               => ~Called(runs[j], "update") /\ runs[j].pc # "update"

C19_NoUpdateAfterFailedUpdate ==
  [][C19_DownloadOfAbsentOriginal]_vars /\ []C19_AfterFailure

\* After a run failed at the update, a later delivery of the same event has
\* failed at its download.
C19_Witness ==
  \E i, j \in RunIds :
    /\ i < j
    /\ runs[i].event = runs[j].event
    /\ runs[i].failedAt = "update"
    /\ runs[j].failedAt = "download"
    /\ filePath(runs[j].event) \notin DOMAIN objects
====
